---- MODULE Spec2Model ----
(***************************************************************************)
(* Course scheduling pipeline: check_excel_columns -> preprocess_data ->   *)
(* build_scheduling_model -> solve_and_export.                             *)
(*                                                                         *)
(* Text is a sequence of one-character strings.  The ideographic comma     *)
(* U+3001, the first class delimiter of the source, is written "|" here     *)
(* because a TLA+ string holds ASCII only; the second delimiter is the     *)
(* ASCII comma.  Column names are the English renderings of the six        *)
(* spreadsheet columns.                                                    *)
(***************************************************************************)
EXTENDS Integers, Sequences, FiniteSets, TLC

VARIABLES
    file_exists,                \* the spreadsheet at EXCEL_PATH can be read
    columns,                    \* the columns of the spreadsheet
    rows,                       \* the rows of the spreadsheet
    ENABLE_TEACHER_CONSTRAINT,
    ENABLE_CLASS_CONSTRAINT,
    ENABLE_ROOM_CONSTRAINT,
    pc,                         \* position of the main program
    real_cols,                  \* check_excel_columns' return value
    courses,                    \* preprocess_data's return value
    notes,                      \* course ids whose slot count was adjusted
    teachers,                   \* gap analysis: teacher -> demand
    classes_dict,               \* gap analysis: class -> demand
    top_teachers,               \* gap analysis: the printed teacher lines
    top_classes,                \* gap analysis: the printed class lines
    prob,                       \* the constraints of the LpProblem
    status,                     \* prob.status after solve()
    varValue,                   \* x[(cid, t)].varValue after solve()
    result,                     \* the records written to the result files
    printed,                    \* the kinds of message printed by solve_and_export
    error                       \* the exception that ended the run, if any

vars == <<file_exists, columns, rows, ENABLE_TEACHER_CONSTRAINT,
          ENABLE_CLASS_CONSTRAINT, ENABLE_ROOM_CONSTRAINT, pc, real_cols,
          courses, notes, teachers, classes_dict, top_teachers, top_classes,
          prob, status, varValue, result, printed, error>>

(***************************************************************************)
(* Bounds of the model.                                                    *)
(***************************************************************************)
\* len(TIMES): 16 * 5 * 6 = 480 in the source, scaled down
NumSlots == 2
\* rows of the spreadsheet in the scheduling runs
MaxRows == 2
\* length of the class field in the parsing runs
MaxStrLen == 4
\* total hours range over -MaxHours .. MaxHours in the rounding runs
MaxHours == 40
\* rows of the spreadsheet in the gap analysis runs
MaxGapRows == 6

(***************************************************************************)
(* Configuration (lines 8-13).                                             *)
(***************************************************************************)
HOUR_PER_SLOT == 2

TIMES == [i \in 1..NumSlots |-> i]

\* the two class delimiters and the blank
DelimA == "|"
DelimB == ","
Blank == " "

core_cols ==
    {"course_name", "teacher_name", "class_composition", "room_category",
     "total_hours", "hour_type"}

(***************************************************************************)
(* Text helpers: str.strip, the "in" test and str.split.                   *)
(***************************************************************************)
RECURSIVE LStrip(_)
LStrip(s) ==
    IF s # <<>> /\ Head(s) = Blank THEN LStrip(Tail(s)) ELSE s

RECURSIVE RStrip(_)
RStrip(s) ==
    IF s # <<>> /\ s[Len(s)] = Blank THEN RStrip(SubSeq(s, 1, Len(s) - 1)) ELSE s

Strip(s) == RStrip(LStrip(s))

Contains(s, d) == \E i \in DOMAIN s : s[i] = d

RECURSIVE Split(_, _)
Split(s, d) ==
    IF ~Contains(s, d)
    THEN <<s>>
    ELSE LET i == CHOOSE k \in DOMAIN s :
                      s[k] = d /\ \A j \in 1..(k - 1) : s[j] # d
         IN  <<SubSeq(s, 1, i - 1)>> \o Split(SubSeq(s, i + 1, Len(s)), d)

\* [cls.strip() for cls in parts if cls.strip()]
StripNonEmpty(parts) ==
    LET stripped == [i \in DOMAIN parts |-> Strip(parts[i])]
        keep(p) == p # <<>>
    IN  SelectSeq(stripped, keep)

\* variant of ParseClasses: the comma is tried before delimiter A
ParseClasses_commaFirst(field) ==
    LET class_str == Strip(field)
    IN  IF Contains(class_str, DelimB)
        THEN StripNonEmpty(Split(class_str, DelimB))
        ELSE IF Contains(class_str, DelimA)
        THEN StripNonEmpty(Split(class_str, DelimA))
        ELSE <<class_str>>

\* lines 80-86
ParseClasses(field) ==
    LET class_str == Strip(field)
    IN  IF Contains(class_str, DelimA)
        THEN StripNonEmpty(Split(class_str, DelimA))
        ELSE IF Contains(class_str, DelimB)
        THEN StripNonEmpty(Split(class_str, DelimB))
        ELSE <<class_str>>

(***************************************************************************)
(* Slot count of a course (lines 72-75).  \div and % are Python's // and % *)
(* (floor division, remainder with the sign of the divisor).               *)
(***************************************************************************)
\* variant of RequiredSlots: a remainder is not rounded up
RequiredSlots_floor(total_hour) == total_hour \div HOUR_PER_SLOT

RequiredSlots(total_hour) ==
    IF total_hour % HOUR_PER_SLOT # 0
    THEN total_hour \div HOUR_PER_SLOT + 1
    ELSE total_hour \div HOUR_PER_SLOT

NoteEmitted(total_hour) == total_hour % HOUR_PER_SLOT # 0

(***************************************************************************)
(* preprocess_data, lines 58-96: dropna, ids, one record per row.          *)
(***************************************************************************)
DropNa(rs) ==
    LET complete(r) == r.nan \cap core_cols = {}
    IN  SelectSeq(rs, complete)

CourseOf(row, i) ==
    [id             |-> i,
     name           |-> Strip(row.name),
     teacher        |-> Strip(row.teacher),
     classes        |-> ParseClasses(row.classes),
     room           |-> Strip(row.room),
     total_hour     |-> row.hours,
     required_slots |-> RequiredSlots(row.hours),
     type           |-> Strip(row.type)]

CoursesOf(rs) ==
    LET df == DropNa(rs)
    IN  [i \in DOMAIN df |-> CourseOf(df[i], i)]

NotesOf(cs) ==
    LET adjusted(c) == NoteEmitted(c.total_hour)
        sel == SelectSeq(cs, adjusted)
    IN  [i \in DOMAIN sel |-> sel[i].id]

(***************************************************************************)
(* preprocess_data, lines 98-126: the resource gap analysis.  A Python     *)
(* dict keeps insertion order, so a dict is a sequence of entries.         *)
(***************************************************************************)
TOP_N == 5

total_available_slots == Len(TIMES)

\* variant of DictAdd: a later course replaces the sum of the earlier ones
DictAdd_overwrite(d, k, v) ==
    IF \E i \in DOMAIN d : d[i].key = k
    THEN [i \in DOMAIN d |->
             IF d[i].key = k THEN [d[i] EXCEPT !.slots = v] ELSE d[i]]
    ELSE Append(d, [key |-> k, slots |-> v])

\* d[k] = d.get(k, 0) + v
DictAdd(d, k, v) ==
    IF \E i \in DOMAIN d : d[i].key = k
    THEN [i \in DOMAIN d |->
             IF d[i].key = k THEN [d[i] EXCEPT !.slots = @ + v] ELSE d[i]]
    ELSE Append(d, [key |-> k, slots |-> v])

RECURSIVE TeacherDemand(_)
TeacherDemand(cs) ==
    IF cs = <<>> THEN <<>>
    ELSE LET n == Len(cs)
         IN  DictAdd(TeacherDemand(SubSeq(cs, 1, n - 1)),
                     cs[n].teacher, cs[n].required_slots)

RECURSIVE AddClasses(_, _, _)
AddClasses(d, cls, v) ==
    IF cls = <<>> THEN d
    ELSE AddClasses(DictAdd(d, Head(cls), v), Tail(cls), v)

RECURSIVE ClassDemand(_)
ClassDemand(cs) ==
    IF cs = <<>> THEN <<>>
    ELSE LET n == Len(cs)
         IN  AddClasses(ClassDemand(SubSeq(cs, 1, n - 1)),
                        cs[n].classes, cs[n].required_slots)

\* sorted(items, key=demand, reverse=True): stable, equal demands keep their order
RECURSIVE SortedDesc(_)
SortedDesc(d) ==
    IF d = <<>> THEN <<>>
    ELSE LET n == Len(d)
             before == SortedDesc(SubSeq(d, 1, n - 1))
             k == Cardinality({i \in DOMAIN before : before[i].slots >= d[n].slots})
         IN  SubSeq(before, 1, k) \o <<d[n]>> \o SubSeq(before, k + 1, Len(before))

Take(s, n) == SubSeq(s, 1, IF Len(s) < n THEN Len(s) ELSE n)

\* one printed line per entry of the top list
TopLines(d) ==
    LET top == Take(SortedDesc(d), TOP_N)
    IN  [i \in DOMAIN top |->
            [key     |-> top[i].key,
             slots   |-> top[i].slots,
             gap     |-> top[i].slots - total_available_slots,
             flagged |-> ~(top[i].slots - total_available_slots <= 0)]]

(***************************************************************************)
(* build_scheduling_model (lines 133-186).  A constraint is the set of the *)
(* variables x[(cid, t)] it sums, its sense and its right-hand side.       *)
(***************************************************************************)
Range(s) == {s[i] : i \in DOMAIN s}

CourseIds(cs) == DOMAIN cs

XKeys(cs) == CourseIds(cs) \X Range(TIMES)

\* variant of HourConstraints: fewer slots than required are allowed
HourConstraints_atMost(cs) ==
    {[name  |-> <<"Hour_Constraint", <<>>, cid>>,
      vars  |-> {<<cid, t>> : t \in Range(TIMES)},
      sense |-> "<=",
      rhs   |-> cs[cid].required_slots] : cid \in CourseIds(cs)}

HourConstraints(cs) ==
    {[name  |-> <<"Hour_Constraint", <<>>, cid>>,
      vars  |-> {<<cid, t>> : t \in Range(TIMES)},
      sense |-> "==",
      rhs   |-> cs[cid].required_slots] : cid \in CourseIds(cs)}

TeacherCourses(cs, teacher) == {cid \in CourseIds(cs) : cs[cid].teacher = teacher}

TeacherConstraints(cs) ==
    {[name  |-> <<"Teacher_Conflict", k[1], k[2]>>,
      vars  |-> {<<cid, k[2]>> : cid \in TeacherCourses(cs, k[1])},
      sense |-> "<=",
      rhs   |-> 1] : k \in {cs[cid].teacher : cid \in CourseIds(cs)} \X Range(TIMES)}

\* variant of ClassCourses: only the first class of a course counts
ClassCourses_firstClass(cs, cls) ==
    {cid \in CourseIds(cs) : cs[cid].classes # <<>> /\ cs[cid].classes[1] = cls}

ClassCourses(cs, cls) == {cid \in CourseIds(cs) : cls \in Range(cs[cid].classes)}

ClassConstraints(cs) ==
    {[name  |-> <<"Class_Conflict", k[1], k[2]>>,
      vars  |-> {<<cid, k[2]>> : cid \in ClassCourses(cs, k[1])},
      sense |-> "<=",
      rhs   |-> 1] :
        k \in (UNION {Range(cs[cid].classes) : cid \in CourseIds(cs)}) \X Range(TIMES)}

RoomCourses(cs, room) == {cid \in CourseIds(cs) : cs[cid].room = room}

RoomConstraints(cs) ==
    {[name  |-> <<"Room_Conflict", k[1], k[2]>>,
      vars  |-> {<<cid, k[2]>> : cid \in RoomCourses(cs, k[1])},
      sense |-> "<=",
      rhs   |-> 1] : k \in {cs[cid].room : cid \in CourseIds(cs)} \X Range(TIMES)}

Constraints(cs, teacherOn, classOn, roomOn) ==
    HourConstraints(cs)
        \cup (IF teacherOn THEN TeacherConstraints(cs) ELSE {})
        \cup (IF classOn THEN ClassConstraints(cs) ELSE {})
        \cup (IF roomOn THEN RoomConstraints(cs) ELSE {})

(***************************************************************************)
(* The solver behind prob.solve() (line 193).                              *)
(***************************************************************************)
LpStatus(s) ==
    CASE s = 1  -> "Optimal"
      [] s = 0  -> "Not Solved"
      [] s = -1 -> "Infeasible"
      [] s = -2 -> "Unbounded"
      [] s = -3 -> "Undefined"

Sum1(con, val) == Cardinality({v \in con.vars : val[v] = 1})

Holds(con, val) ==
    IF con.sense = "==" THEN Sum1(con, val) = con.rhs ELSE Sum1(con, val) <= con.rhs

Satisfies(p, val) == \A con \in p : Holds(con, val)

Valuations(cs) == [XKeys(cs) -> {0, 1}]

Solutions(p, cs) == {val \in Valuations(cs) : Satisfies(p, val)}

Unset(cs) == [k \in XKeys(cs) |-> 0]

\* What solve() can leave behind: a solution with status Optimal; status
\* Optimal with no value loaded into the variables (a solver or adapter
\* fault); Infeasible when there is no solution; or a stop without an answer.
SolverOutcomes(p, cs) ==
    LET sols == Solutions(p, cs)
    IN  {[status |-> 1, val |-> v] : v \in sols}
            \cup {[status |-> 1, val |-> Unset(cs)]}
            \cup {[status |-> s, val |-> Unset(cs)] : s \in {0, -3}}
            \cup (IF sols = {} THEN {[status |-> -1, val |-> Unset(cs)]} ELSE {})

(***************************************************************************)
(* solve_and_export, lines 204-217: one output record per course.          *)
(***************************************************************************)
AssignedSlots(cid, val) ==
    LET chosen(t) == val[<<cid, t>>] = 1
    IN  SelectSeq(TIMES, chosen)

CourseResult(c, val) ==
    [id         |-> c.id,
     name       |-> c.name,
     teacher    |-> c.teacher,
     classes    |-> c.classes,
     room       |-> c.room,
     total_hour |-> c.total_hour,
     slot_count |-> c.required_slots,
     slots      |-> AssignedSlots(c.id, val)]

ResultOf(cs, val) == [i \in DOMAIN cs |-> CourseResult(cs[i], val)]

(***************************************************************************)
(* The main program (lines 238-263), one action per call.                  *)
(***************************************************************************)
\* variant of missing_cols: stops at the first absent column
missing_cols_first(real_columns) ==
    IF core_cols \ real_columns = {} THEN {}
    ELSE {CHOOSE col \in core_cols \ real_columns : TRUE}

\* line 54
missing_cols(real_columns) == core_cols \ real_columns

NoError == [type |-> "none", missing |-> {}]

check_excel_columns ==
    /\ pc = "main"
    /\ real_cols' = IF file_exists THEN columns ELSE {}
    /\ pc' = IF real_cols' = {} THEN "exit" ELSE "columns_checked"
    /\ UNCHANGED <<file_exists, columns, rows, ENABLE_TEACHER_CONSTRAINT,
                   ENABLE_CLASS_CONSTRAINT, ENABLE_ROOM_CONSTRAINT, courses,
                   notes, teachers, classes_dict, top_teachers, top_classes,
                   prob, status, varValue, result, printed, error>>

preprocess_data ==
    /\ pc = "columns_checked"
    /\ LET missing == missing_cols(real_cols)
       IN  IF missing # {}
           THEN /\ error' = [type |-> "ValueError", missing |-> missing]
                /\ pc' = "exit"
                /\ UNCHANGED <<courses, notes, teachers, classes_dict,
                               top_teachers, top_classes>>
           ELSE /\ courses' = CoursesOf(rows)
                /\ notes' = NotesOf(courses')
                /\ teachers' = TeacherDemand(courses')
                /\ classes_dict' = ClassDemand(courses')
                /\ top_teachers' = TopLines(teachers')
                /\ top_classes' = TopLines(classes_dict')
                /\ pc' = "preprocessed"
                /\ UNCHANGED error
    /\ UNCHANGED <<file_exists, columns, rows, ENABLE_TEACHER_CONSTRAINT,
                   ENABLE_CLASS_CONSTRAINT, ENABLE_ROOM_CONSTRAINT, real_cols,
                   prob, status, varValue, result, printed>>

build_scheduling_model ==
    /\ pc = "preprocessed"
    /\ prob' = Constraints(courses, ENABLE_TEACHER_CONSTRAINT,
                           ENABLE_CLASS_CONSTRAINT, ENABLE_ROOM_CONSTRAINT)
    /\ pc' = "built"
    /\ UNCHANGED <<file_exists, columns, rows, ENABLE_TEACHER_CONSTRAINT,
                   ENABLE_CLASS_CONSTRAINT, ENABLE_ROOM_CONSTRAINT, real_cols,
                   courses, notes, teachers, classes_dict, top_teachers,
                   top_classes, status, varValue, result, printed, error>>

solve_and_export ==
    /\ pc = "built"
    /\ \E o \in SolverOutcomes(prob, courses) :
          /\ status' = o.status
          /\ varValue' = o.val
          /\ IF o.status # 1
             THEN /\ printed' = {LpStatus(o.status), "no_feasible_solution_advice"}
                  /\ UNCHANGED result
             ELSE /\ printed' = {LpStatus(o.status), "result_saved"}
                  /\ result' = [written |-> TRUE, records |-> ResultOf(courses, o.val)]
    /\ pc' = "done"
    /\ UNCHANGED <<file_exists, columns, rows, ENABLE_TEACHER_CONSTRAINT,
                   ENABLE_CLASS_CONSTRAINT, ENABLE_ROOM_CONSTRAINT, real_cols,
                   courses, notes, teachers, classes_dict, top_teachers,
                   top_classes, prob, error>>

Next ==
    \/ check_excel_columns
    \/ preprocess_data
    \/ build_scheduling_model
    \/ solve_and_export

NextNormalize ==
    \/ check_excel_columns
    \/ preprocess_data

(***************************************************************************)
(* Inputs.                                                                 *)
(***************************************************************************)
Row(name, teacher, classes, room, hours, type, nan) ==
    [name |-> name, teacher |-> teacher, classes |-> classes, room |-> room,
     hours |-> hours, type |-> type, nan |-> nan]

SeqsUpTo(S, n) == UNION {[1..k -> S] : k \in 0..n}

\* the state before main runs, for a given spreadsheet and configuration
Start(exists, cols, rs, teacherOn, classOn, roomOn) ==
    /\ file_exists = exists
    /\ columns = cols
    /\ rows = rs
    /\ ENABLE_TEACHER_CONSTRAINT = teacherOn
    /\ ENABLE_CLASS_CONSTRAINT = classOn
    /\ ENABLE_ROOM_CONSTRAINT = roomOn
    /\ pc = "main"
    /\ real_cols = {}
    /\ courses = <<>>
    /\ notes = <<>>
    /\ teachers = <<>>
    /\ classes_dict = <<>>
    /\ top_teachers = <<>>
    /\ top_classes = <<>>
    /\ prob = {}
    /\ status = 0
    /\ varValue = <<>>
    /\ result = [written |-> FALSE, records |-> <<>>]
    /\ printed = {}
    /\ error = NoError

\* rows of the scheduling runs: two teachers, two rooms, classes a and b,
\* total hours 2 and 3, one row of -2 hours, and rows with empty cells
SchedRows ==
    {Row(<<"n">>, tr[1], cl, tr[2], h, <<"t">>, {}) :
        tr \in {<<<<"a">>, <<"r">>>>, <<<<"a">>, <<"s">>>>, <<<<"b">>, <<"r">>>>},
        cl \in {<<"a", DelimA, "b">>, <<"b">>},
        h \in {2, 3}}
    \cup {Row(<<"n">>, <<"a">>, <<"b">>, <<"r">>, -2, <<"t">>, {})}
    \cup {Row(<<"n">>, <<"a">>, <<"b">>, <<"r">>, 2, <<"t">>, n) :
            n \in {{"teacher_name"}, {"total_hours", "hour_type"}}}

AnyRow == Row(<<"n">>, <<"a">>, <<"b">>, <<"r">>, 2, <<"t">>, {})

Init ==
    \E teacherOn \in BOOLEAN, classOn \in BOOLEAN, roomOn \in BOOLEAN :
        \/ \E rs \in SeqsUpTo(SchedRows, MaxRows) :
              Start(TRUE, core_cols, rs, teacherOn, classOn, roomOn)
        \/ \E cols \in {core_cols \ {"teacher_name"},
                        core_cols \ {"class_composition", "total_hours"}, {}} :
              Start(TRUE, cols, <<AnyRow>>, teacherOn, classOn, roomOn)
        \/ Start(FALSE, {}, <<>>, teacherOn, classOn, roomOn)

Spec == Init /\ [][Next]_vars

\* the configuration of the source (lines 15-17), one spreadsheet
Configured(rs) == Start(TRUE, core_cols, rs, FALSE, TRUE, FALSE)

\* class fields of the parsing runs
Alphabet == {"a", "b", Blank, DelimA, DelimB}

InitParse ==
    \E field \in SeqsUpTo(Alphabet, MaxStrLen) :
        Configured(<<Row(<<"n">>, <<"a">>, field, <<"r">>, 2, <<"t">>, {})>>)

SpecParse == InitParse /\ [][NextNormalize]_vars

\* total hours of the rounding runs
InitHours ==
    \E h \in (-MaxHours)..MaxHours :
        Configured(<<Row(<<"n">>, <<"a">>, <<"b">>, <<"r">>, h, <<"t">>, {})>>)

SpecHours == InitHours /\ [][NextNormalize]_vars

\* rows of the gap analysis runs: row i has a teacher and a class of its own
\* (1 or 4 slots), or shares teacher a and class a with other rows
Own(i) == <<ToString(i)>>

GapRow(i, k) ==
    CASE k = 1 -> Row(<<"n">>, Own(i), Own(i), <<"r">>, 2, <<"t">>, {})
      [] k = 2 -> Row(<<"n">>, Own(i), Own(i), <<"r">>, 8, <<"t">>, {})
      [] k = 3 -> Row(<<"n">>, <<"a">>, Own(i) \o <<DelimA, "a">>, <<"r">>, 4, <<"t">>, {})
      [] k = 4 -> Row(<<"n">>, <<"a">>, <<"a", DelimA, "a">>, <<"r">>, 2, <<"t">>, {})

InitGap ==
    \E n \in 1..MaxGapRows :
        \E ch \in [1..n -> 1..4] :
            Configured([i \in 1..n |-> GapRow(i, ch[i])])

SpecGap == InitGap /\ [][NextNormalize]_vars

(***************************************************************************)
(* Properties.                                                             *)
(***************************************************************************)
Preprocessed == pc \in {"preprocessed", "built", "done"}

\* C3: every course record has required_slots = ceil(total_hour / HOUR_PER_SLOT),
\* stated as the least count whose slots cover the hours, and the adjustment
\* note is printed for a course iff its hours are no multiple of HOUR_PER_SLOT.
C3_CeilAndNote ==
    Preprocessed =>
        \A i \in DOMAIN courses :
            LET h == courses[i].total_hour
                r == courses[i].required_slots
            IN  /\ r * HOUR_PER_SLOT >= h
                /\ (r - 1) * HOUR_PER_SLOT < h
                /\ (courses[i].id \in Range(notes))
                       <=> ~(\E k \in (-MaxHours)..MaxHours : k * HOUR_PER_SLOT = h)

\* 17 hours at 2 hours per slot: 9 slots and a note
C3_Witness ==
    /\ pc = "preprocessed"
    /\ \E i \in DOMAIN courses :
          /\ courses[i].total_hour = 17
          /\ courses[i].required_slots = 9
          /\ courses[i].id \in Range(notes)

\* the maximal d-free stretches <<first, last>> of s with a non-blank character
Pieces(s, d) ==
    {p \in (1..Len(s)) \X (1..Len(s)) :
        /\ p[1] <= p[2]
        /\ p[1] = 1 \/ s[p[1] - 1] = d
        /\ p[2] = Len(s) \/ s[p[2] + 1] = d
        /\ \A k \in p[1]..p[2] : s[k] # d
        /\ \E k \in p[1]..p[2] : s[k] # Blank}

\* s[first..last] without its leading and trailing blanks
Trimmed(s, first, last) ==
    LET inked == {k \in first..last : s[k] # Blank}
    IN  IF inked = {} THEN <<>>
        ELSE LET lo == CHOOSE k \in inked : \A j \in inked : k <= j
                 hi == CHOOSE k \in inked : \A j \in inked : k >= j
             IN  SubSeq(s, lo, hi)

\* cl lists, in order, the trimmed pieces of s between delimiters d
ListsPieces(cl, s, d) ==
    /\ Len(cl) = Cardinality(Pieces(s, d))
    /\ \A p \in Pieces(s, d) :
          LET n == Cardinality({q \in Pieces(s, d) : q[1] <= p[1]})
          IN  cl[n] = Trimmed(s, p[1], p[2])

\* the three fields of the example: "a|b", "a,b" and "a"
C7_Examples ==
    /\ ParseClasses(<<"a", DelimA, "b">>) = <<<<"a">>, <<"b">>>>
    /\ ParseClasses(<<"a", DelimB, "b">>) = <<<<"a">>, <<"b">>>>
    /\ ParseClasses(<<"a">>) = <<<<"a">>>>

\* C7: a class field that contains delimiter A is split on A only (a comma
\* stays inside a class name); otherwise a field that contains delimiter B is
\* split on B; otherwise the whole trimmed field is the one class name.
C7_ClassSplit ==
    /\ C7_Examples
    /\ Preprocessed =>
        \A i \in DOMAIN courses :
            LET field == DropNa(rows)[i].classes
                cl == courses[i].classes
            IN  IF Contains(field, DelimA) THEN ListsPieces(cl, field, DelimA)
                ELSE IF Contains(field, DelimB) THEN ListsPieces(cl, field, DelimB)
                ELSE cl = <<Trimmed(field, 1, Len(field))>>

\* a field with both delimiters: the comma stays in the class name
C7_Witness ==
    /\ pc = "preprocessed"
    /\ rows[1].classes = <<"a", DelimB, DelimA, "b">>
    /\ courses[1].classes = <<<<"a", DelimB>>, <<"b">>>>

(***************************************************************************)
(* Scheduling properties.                                                  *)
(***************************************************************************)
Occupies(val, cid, t) == val[<<cid, t>>] = 1

\* two courses that may not meet in one slot under the enabled dimensions
Clash(c1, c2) ==
    \/ ENABLE_TEACHER_CONSTRAINT /\ courses[c1].teacher = courses[c2].teacher
    \/ ENABLE_CLASS_CONSTRAINT
          /\ Range(courses[c1].classes) \cap Range(courses[c2].classes) # {}
    \/ ENABLE_ROOM_CONSTRAINT /\ courses[c1].room = courses[c2].room

ConflictFree(val) ==
    \A c1 \in CourseIds(courses), c2 \in CourseIds(courses), t \in Range(TIMES) :
        (c1 # c2 /\ Occupies(val, c1, t) /\ Occupies(val, c2, t)) => ~Clash(c1, c2)

\* C1: under every toggle state, an assignment that satisfies the built model
\* puts no two courses with a common teacher (teacher toggle on), a common
\* member of their class lists (class toggle on) or a common room (room toggle
\* on) into the same slot.
C1_NoDoubleBooking ==
    /\ pc = "built" =>
          \A val \in Valuations(courses) : Satisfies(prob, val) => ConflictFree(val)
    /\ (pc = "done" /\ status = 1 /\ Satisfies(prob, varValue)) => ConflictFree(varValue)

\* courses "a|b" and "b" share class b through the list of the first one and
\* are scheduled in different slots
C1_Witness ==
    /\ pc = "done" /\ status = 1 /\ Satisfies(prob, varValue)
    /\ ENABLE_CLASS_CONSTRAINT /\ ~ENABLE_TEACHER_CONSTRAINT
    /\ Len(courses) = 2
    /\ courses[1].classes = <<<<"a">>, <<"b">>>>
    /\ courses[2].classes = <<<<"b">>>>
    /\ courses[1].teacher = courses[2].teacher
    /\ Occupies(varValue, 1, 1) /\ Occupies(varValue, 2, 2)

\* C2: under every toggle state, the slots reconstructed for a course from an
\* assignment that satisfies the model number exactly its required_slots.
C2_ExactSlotCount ==
    (pc = "done" /\ status = 1 /\ Satisfies(prob, varValue)) =>
        /\ result.written
        /\ Len(result.records) = Len(courses)
        /\ \A i \in DOMAIN courses :
              Len(result.records[i].slots) = courses[i].required_slots

\* a course of 3 hours holds 2 slots, with the room toggle on
C2_Witness ==
    /\ pc = "done" /\ status = 1 /\ Satisfies(prob, varValue)
    /\ ENABLE_ROOM_CONSTRAINT
    /\ \E i \in DOMAIN courses :
          /\ courses[i].required_slots = 2
          /\ Len(result.records[i].slots) = 2

\* C5 as claimed: with the three toggles off the model has a solution whenever
\* every course has required_slots <= |TIMES|.
C5_Original ==
    (/\ pc = "built"
     /\ ~ENABLE_TEACHER_CONSTRAINT /\ ~ENABLE_CLASS_CONSTRAINT /\ ~ENABLE_ROOM_CONSTRAINT
     /\ \A i \in DOMAIN courses : courses[i].required_slots <= Len(TIMES))
        => Solutions(prob, courses) # {}

\* C8 as claimed: when the values returned with status Optimal give some course
\* a number of slots other than its required_slots, the run ends with a
\* ConsistencyError and writes no result.
C8_Original ==
    (/\ pc = "done" /\ status = 1
     /\ \E i \in DOMAIN courses :
           Len(AssignedSlots(i, varValue)) # courses[i].required_slots)
        => (error.type = "ConsistencyError" /\ ~result.written)

\* C9 as claimed: a solve that stops without an answer (Not Solved, Undefined)
\* is reported apart from Infeasible and not as a model without a feasible
\* solution; it raises nothing and writes no result.
C9_Original ==
    (pc = "done" /\ status \in {0, -3}) =>
        /\ LpStatus(status) \in printed
        /\ "Infeasible" \notin printed
        /\ "no_feasible_solution_advice" \notin printed
        /\ error = NoError
        /\ ~result.written

\* C10 as claimed: every course record has required_slots >= 1, and that value
\* is the one in the gap analysis, the hour constraint and the output record.
C10_Original ==
    /\ Preprocessed => \A i \in DOMAIN courses : courses[i].required_slots >= 1
    /\ pc \in {"built", "done"} =>
          \A i \in DOMAIN courses :
              \E con \in prob :
                  /\ con.name = <<"Hour_Constraint", <<>>, i>>
                  /\ con.rhs = courses[i].required_slots
    /\ (pc = "done" /\ result.written) =>
          \A i \in DOMAIN courses :
              result.records[i].slot_count = courses[i].required_slots

(***************************************************************************)
(* Gap analysis properties.                                                *)
(***************************************************************************)
RECURSIVE SumOf(_)
SumOf(f) ==
    IF DOMAIN f = {} THEN 0
    ELSE LET i == CHOOSE j \in DOMAIN f : TRUE
         IN  f[i] + SumOf([j \in DOMAIN f \ {i} |-> f[j]])

Occurrences(list, x) == Cardinality({i \in DOMAIN list : list[i] = x})

\* slots asked of a teacher, and of a class (once per entry of a class list)
TeacherLoad(tch) ==
    SumOf([i \in DOMAIN courses |->
              IF courses[i].teacher = tch THEN courses[i].required_slots ELSE 0])

ClassLoad(cls) ==
    SumOf([i \in DOMAIN courses |->
              courses[i].required_slots * Occurrences(courses[i].classes, cls)])

AllTeachers == {courses[i].teacher : i \in DOMAIN courses}

AllClasses == UNION {Range(courses[i].classes) : i \in DOMAIN courses}

\* dict d holds each key of keys once, with the load given by Load
Aggregates(d, keys, Load(_)) ==
    /\ {d[i].key : i \in DOMAIN d} = keys
    /\ Len(d) = Cardinality(keys)
    /\ \A i \in DOMAIN d : d[i].slots = Load(d[i].key)

\* every printed line states the demand and the gap of its key and flags it
\* iff the demand exceeds the capacity
LinesRight(lines, d) ==
    \A n \in DOMAIN lines :
        /\ \E i \in DOMAIN d : d[i].key = lines[n].key /\ d[i].slots = lines[n].slots
        /\ lines[n].gap = lines[n].slots - Len(TIMES)
        /\ lines[n].flagged <=> lines[n].slots > Len(TIMES)

Flagged(lines) == {lines[n].key : n \in {m \in DOMAIN lines : lines[m].flagged}}

OverCapacity(d) == {d[i].key : i \in {j \in DOMAIN d : d[j].slots > Len(TIMES)}}

\* the lines are the TOP_N entries of highest demand, in descending order
TopOf(lines, d) ==
    /\ Len(lines) = (IF Len(d) < TOP_N THEN Len(d) ELSE TOP_N)
    /\ \A n \in DOMAIN lines, m \in DOMAIN lines :
          (n < m) => (lines[n].slots >= lines[m].slots /\ lines[n].key # lines[m].key)
    /\ \A i \in DOMAIN d :
          (\A n \in DOMAIN lines : lines[n].key # d[i].key)
              => \A n \in DOMAIN lines : lines[n].slots >= d[i].slots

Incomplete(rs) == {i \in DOMAIN rs : rs[i].nan \cap core_cols # {}}

====
